---- MODULE Spec2Model ----
(***************************************************************************)
(* Model of awsorgs/accounts.py: the `awsaccounts` command line tool that  *)
(* reconciles the accounts of an AWS Organization against a declarative    *)
(* specification (modes report, create, alias, invite).                    *)
(*                                                                         *)
(* The program state is the arguments, the loaded specification, the       *)
(* snapshot of deployed accounts taken by main(), and the position of the  *)
(* running handler.  The remote service (Organizations and IAM) is part of *)
(* the state: the organization's accounts, its account-creation requests,  *)
(* its invitation handshakes and each account's IAM alias.  Remote calls   *)
(* the program issues are recorded in `calls`, log records in `log`.       *)
(***************************************************************************)
EXTENDS Integers, Sequences, FiniteSets, TLC

VARIABLES
    args,               \* parsed command line: mode, --exec, --invited-account-id
    account_spec,       \* the loaded specification: default_domain, accounts
    deployed_accounts,  \* main()'s snapshot of the organization's accounts
    org_accounts,       \* remote: the accounts of the organization
    requests,           \* remote: account creation requests (CreateAccountStatus)
    handshakes,         \* remote: the invitation handshakes of the organization
    iam_aliases,        \* remote: the IAM account aliases of each account, by Name
    pc,                 \* position of the run
    idx,                \* create_accounts: index of the spec entry being processed
    create_id,          \* create_accounts: Id of the request being polled
    counter,            \* create_accounts: polling counter
    halted,             \* create_accounts: the for loop was left by `break`
    polls,              \* create_accounts: the states the polls of create_id returned
    scans,              \* create_accounts: what the scans of the creation requests
                        \* returned in the current run (created_accounts is the last)
    workers,            \* alias mode: one set_account_alias call per deployed account
    invite,             \* invite mode: what invite_account scanned and returned
    calls,              \* remote calls issued by the current run, in order
                        \* (the polls and the calls of the alias workers apart)
    log,                \* log records written by the current run, in order
    run,                \* number of the current invocation of the tool
    history             \* summaries of the finished invocations; `succeeded` tells
                        \* whether, when the next invocation took its snapshot, every
                        \* request the invocation had submitted was in state SUCCEEDED

inputVars  == <<args, account_spec>>
createVars == <<idx, create_id, counter, halted, polls, scans>>
remoteVars == <<org_accounts, requests, handshakes, iam_aliases>>

vars == <<args, account_spec, deployed_accounts, org_accounts, requests, handshakes,
          iam_aliases, pc, idx, create_id, counter, halted, polls, scans, workers, invite,
          calls, log, run, history>>

----------------------------------------------------------------------------
(* Bounds of the model *)

MaxSpec == 2        \* entries in the specification
MaxRuns == 2        \* invocations of the tool in a behaviour of repeated creation
MaxHandshakes == 2  \* handshakes that exist before the first run
MaxInviteRuns == 3  \* invocations of the tool in a behaviour of repeated invitations

----------------------------------------------------------------------------
(* Values *)

NameList == <<"Dev", "ops">>

Names == {NameList[i] : i \in DOMAIN NameList}

DefaultDomain == "example.org"

GivenEmail == "admin@corp.example"

None == [None |-> TRUE]

\* invite_account has not run
NoInvite == [ran |-> FALSE]

\* AWS account id of the master account of the organization
MasterId == <<"9","9","9","9","9","9","9","9","9","9","9","9">>

\* AWS account id of the account that carries a name (12 digits).
IdOf(name) ==
    IF name = "Dev" THEN <<"1","1","1","1","1","1","1","1","1","1","1","1">>
                    ELSE <<"2","2","2","2","2","2","2","2","2","2","2","2">>

RequestStates == {"IN_PROGRESS", "SUCCEEDED", "FAILED"}

HandshakeStates == {"REQUESTED", "OPEN", "ACCEPTED", "CANCELLED", "DECLINED", "EXPIRED"}

\* the name of the account that carries an id
NameOf(id) == CHOOSE n \in Names : IdOf(n) = id

Account(n, status) == [Id |-> IdOf(n), Name |-> n, Status |-> status]

\* the elements of a sequence
Range(s) == {s[i] : i \in DOMAIN s}

\* sequences over S of length at most n
SeqsUpTo(S, n) == UNION {[1..k -> S] : k \in 0..n}

\* no two entries of a list of records share the value under key
UniqueBy(s, key) == \A i, j \in DOMAIN s : s[i][key] = s[j][key] => i = j

----------------------------------------------------------------------------
(* awsorgs.utils *)

\* lookup(dlist, lkey, lvalue): the dictionary of dlist whose lkey is lvalue, or None
lookup(dlist, lkey, lvalue) ==
    LET items == SelectSeq(dlist, LAMBDA d : lkey \in DOMAIN d /\ d[lkey] = lvalue)
    IN  IF items = <<>> THEN None ELSE items[1]

\* lookup(dlist, lkey, lvalue, rkey): the value under rkey of that dictionary, or None
lookup_rkey(dlist, lkey, lvalue, rkey) ==
    LET item == lookup(dlist, lkey, lvalue)
    IN  IF item = None THEN None
        ELSE IF rkey \in DOMAIN item THEN item[rkey] ELSE None

\* scan_deployed_accounts(log, org_client): every account of the organization
scan_deployed_accounts == org_accounts

\* scan_created_accounts(log, org_client): the creation requests in state SUCCEEDED
scan_created_accounts == SelectSeq(requests, LAMBDA r : r.State = "SUCCEEDED")

----------------------------------------------------------------------------
(* Records of calls and log lines *)

MutatingOps == {"create_account", "create_account_alias", "delete_account_alias",
                "invite_account_to_organization"}

\* the calls of an operation issued on org_client by the current run
CallsOf(op) == SelectSeq(calls, LAMBDA c : c.op = op)

\* the calls issued on the iam clients by the first n set_account_alias calls of
\* the run: the calls of each account in their order, account after account
RECURSIVE WorkerCalls(_)
WorkerCalls(n) == IF n = 0 THEN <<>> ELSE WorkerCalls(n - 1) \o workers[n]["calls"]

\* the mutating calls issued by the current run on org_client and on the iam
\* clients of the accounts
MutatingCalls ==
    SelectSeq(calls \o WorkerCalls(Len(workers)), LAMBDA c : c.op \in MutatingOps)

LogLine(level, event, subject) == [level |-> level, event |-> event, subject |-> subject]

----------------------------------------------------------------------------
(* create_accounts *)

maxtries == 5

\* a slip: an empty Email is taken as given
email_addr_unchecked(a_spec) ==
    IF "Email" \in DOMAIN a_spec
    THEN a_spec["Email"]
    ELSE a_spec["Name"] \o "@" \o account_spec["default_domain"]

\* the email address a new account is created with
email_addr(a_spec) ==
    IF "Email" \in DOMAIN a_spec /\ a_spec["Email"] # ""
    THEN a_spec["Email"]
    ELSE a_spec["Name"] \o "@" \o account_spec["default_domain"]

\* the positions of the run at which create_accounts polls a creation
Polling == {"poll", "sleep"}

\* a slip: the loop is left on SUCCEEDED only, a failed creation is polled on
poll_breaks_on_success_only(state) == state = "SUCCEEDED"

\* the poll found the creation in a final state: `break` leaves the while loop
poll_breaks(state) == state \in {"SUCCEEDED", "FAILED"}

\* the log record of the poll that found the creation in a final state
poll_log(name, state) ==
    IF state = "SUCCEEDED" THEN LogLine("info", "succeeded", name)
                           ELSE LogLine("error", "failed", name)

\* a slip: the warning is written whenever the creation has not succeeded
pending_log_unless_succeeded(name, cnt, state) ==
    IF state # "SUCCEEDED" THEN <<LogLine("warn", "still pending", name)>> ELSE <<>>

\* what is logged after the while loop: the warning that the creation is still
\* pending, when the counter is exhausted and the last poll found it in progress
pending_log(name, cnt, state) ==
    IF cnt = maxtries /\ state = "IN_PROGRESS"
    THEN <<LogLine("warn", "still pending", name)>>
    ELSE <<>>

\* a slip: the snapshot of the deployed accounts is not looked at
is_deployed_never(name) == FALSE

\* the entry's Name is the Name of a deployed account
is_deployed(name) == lookup(deployed_accounts, "Name", name) # None

\* a slip: any succeeded creation request is taken for a request of the entry
still_provisioning_any(name) == scan_created_accounts # <<>>

\* a slip: the creation requests are not looked at
still_provisioning_never(name) == FALSE

\* the account is still being provisioned: a scanned creation request carries its name
still_provisioning(name) == lookup(scan_created_accounts, "AccountName", name) # None

\* a slip: `continue` in the place of `break`
after_collision_continue == [pc |-> "create_loop", idx |-> idx + 1]

\* where the run goes on after a collision: `break` leaves the for loop
after_collision == [pc |-> "create_end", idx |-> idx]

\* a slip: the `break` on a failed creation leaves the for loop as well
after_polling_failure_halts(state) ==
    IF state = "FAILED" THEN [pc |-> "create_end", idx |-> idx]
                        ELSE [pc |-> "create_loop", idx |-> idx + 1]

\* where the run goes on after the polling of a creation: the `break`s of the
\* polling loop leave the while loop only, the for loop takes the next entry
after_polling(state) == [pc |-> "create_loop", idx |-> idx + 1]

\* a slip: the account is created whether or not --exec is given
create_exec_always == TRUE

\* an account is created only with --exec
create_exec == args["exec"]

\* An iteration of the for loop of create_accounts up to the --exec gate: the
\* lookup in the snapshot, and for an entry that is not deployed the scan of the
\* creation requests, the collision check and the 'Creating account' record.
\* create_id, counter and the last polled state are locals of the function:
\* an iteration that submits nothing leaves them as they are.
CreateEntry ==
    /\ pc = "create_loop"
    /\ idx <= Len(account_spec["accounts"])
    /\ LET a_spec == account_spec["accounts"][idx]
           scan == [op |-> "list_create_account_status"]
       IN  IF is_deployed(a_spec["Name"])
           THEN /\ idx' = idx + 1
                /\ UNCHANGED <<pc, halted, scans, calls, log>>
           ELSE /\ calls' = Append(calls, scan)
                /\ scans' = Append(scans, scan_created_accounts)
                /\ IF still_provisioning(a_spec["Name"])
                   THEN /\ log' = Append(log,
                                LogLine("warn", "not yet available", a_spec["Name"]))
                        /\ halted' = TRUE
                        /\ pc' = after_collision["pc"]
                        /\ idx' = after_collision["idx"]
                   ELSE /\ log' = Append(log,
                                LogLine("info", "Creating account", a_spec["Name"]))
                        /\ pc' = IF create_exec THEN "create_account" ELSE pc
                        /\ idx' = IF create_exec THEN idx ELSE idx + 1
                        /\ UNCHANGED halted
    /\ UNCHANGED <<inputVars, deployed_accounts, remoteVars, create_id, counter, polls,
                   workers, invite, run, history>>

\* the creation is submitted: create_account, the Id of its request is kept and
\* logged, the polling counter starts at 0
CreateAccount ==
    /\ pc = "create_account"
    /\ LET a_spec == account_spec["accounts"][idx]
           new_id == Len(requests) + 1
       IN  /\ requests' = Append(requests,
                    [Id |-> new_id, AccountName |-> a_spec["Name"],
                     State |-> "IN_PROGRESS"])
           /\ calls' = Append(calls,
                    [op |-> "create_account",
                     AccountName |-> a_spec["Name"],
                     Email |-> email_addr(a_spec),
                     Id |-> new_id,
                     entry |-> idx])
           /\ create_id' = new_id
           /\ log' = Append(log, LogLine("info", "CreateAccountStatus Id", new_id))
           /\ counter' = 0
           /\ polls' = <<>>
           /\ pc' = "poll"
    /\ UNCHANGED <<inputVars, deployed_accounts, org_accounts, handshakes, iam_aliases,
                   idx, halted, scans, workers, invite, run, history>>

\* one pass of the while loop up to its sleep: describe_create_account_status
\* returns the state of the request; in progress, the loop sleeps; succeeded or
\* failed, the outcome is logged and `break` leaves the while loop
Poll ==
    /\ pc = "poll"
    /\ counter < maxtries
    /\ LET name == account_spec["accounts"][idx]["Name"]
           state == requests[create_id]["State"]
       IN  /\ polls' = Append(polls, state)
           /\ IF poll_breaks(state)
              THEN /\ log' = Append(log, poll_log(name, state))
                                \o pending_log(name, counter, state)
                   /\ pc' = after_polling(state)["pc"]
                   /\ idx' = after_polling(state)["idx"]
              ELSE /\ pc' = "sleep"
                   /\ UNCHANGED <<log, idx>>
    /\ UNCHANGED <<inputVars, deployed_accounts, remoteVars, create_id, counter, halted,
                   scans, workers, invite, calls, run, history>>

\* time.sleep(5) returns: the poll is logged as in progress and counted; with the
\* counter at maxtries the while loop ends, and the creation that the last poll
\* found in progress is logged as still pending
Sleep ==
    /\ pc = "sleep"
    /\ LET name == account_spec["accounts"][idx]["Name"]
           state == polls[Len(polls)]
       IN  /\ counter' = counter + 1
           /\ IF counter + 1 < maxtries
              THEN /\ log' = Append(log, LogLine("info", "in progress", name))
                   /\ pc' = "poll"
                   /\ UNCHANGED idx
              ELSE /\ log' = Append(log, LogLine("info", "in progress", name))
                                \o pending_log(name, counter + 1, state)
                   /\ pc' = after_polling(state)["pc"]
                   /\ idx' = after_polling(state)["idx"]
    /\ UNCHANGED <<inputVars, deployed_accounts, remoteVars, create_id, halted, polls,
                   scans, workers, invite, calls, run, history>>

\* the for loop is exhausted
CreateLoopExit ==
    /\ pc = "create_loop"
    /\ idx > Len(account_spec["accounts"])
    /\ pc' = "create_end"
    /\ UNCHANGED <<inputVars, deployed_accounts, remoteVars, createVars,
                   workers, invite, calls, log, run, history>>

\* a slip: every deployed account is reported
unmanaged_accounts_all ==
    [i \in DOMAIN deployed_accounts |-> deployed_accounts[i]["Name"]]

\* the names of deployed accounts that the specification does not list
unmanaged_accounts ==
    LET deployed_account_names == [i \in DOMAIN deployed_accounts |->
                                        deployed_accounts[i]["Name"]]
        spec_account_names == {account_spec["accounts"][i]["Name"] :
                                        i \in DOMAIN account_spec["accounts"]}
    IN  SelectSeq(deployed_account_names, LAMBDA a : a \notin spec_account_names)

\* main(), create mode, after create_accounts has returned
MainCreateEnd ==
    /\ pc = "create_end"
    /\ log' = IF unmanaged_accounts # <<>>
              THEN Append(log, LogLine("warn", "Unmanaged accounts", unmanaged_accounts))
              ELSE log
    /\ pc' = "done"
    /\ UNCHANGED <<inputVars, deployed_accounts, remoteVars, createVars, workers,
                   invite, calls, run, history>>

----------------------------------------------------------------------------
(* set_account_alias, run by queue_threads once for each deployed account *)

\* str.lower() on the names of the model
lower(name) == IF name = "Dev" THEN "dev" ELSE name

\* the alias set_account_alias wants the account to have
proposed_alias(account) ==
    LET a_spec == lookup(account_spec["accounts"], "Name", account["Name"])
    IN  IF a_spec # None /\ "Alias" \in DOMAIN a_spec
        THEN a_spec["Alias"]
        ELSE lower(account["Name"])

\* a call of set_account_alias that has not started
NewWorker == [pc |-> "todo", credentials |-> "unset", aliases |-> <<>>,
              calls |-> <<>>, log |-> <<>>]

\* the status check and get_assume_role_credentials, which returns the credentials
\* or a RuntimeError; after an error is logged the function goes on
AliasCredentials(i) ==
    /\ pc = "alias"
    /\ workers[i]["pc"] = "todo"
    /\ IF deployed_accounts[i]["Status"] = "ACTIVE"
       THEN \E credentials \in {"ok", "RuntimeError"} :
              workers' = [workers EXCEPT
                  ![i]["pc"] = "list",
                  ![i]["credentials"] = credentials,
                  ![i]["log"] = IF credentials = "RuntimeError"
                                THEN Append(@, LogLine("error", "credentials",
                                                       deployed_accounts[i]["Name"]))
                                ELSE @]
       ELSE workers' = [workers EXCEPT ![i]["pc"] = "done"]
    /\ UNCHANGED <<inputVars, deployed_accounts, remoteVars, pc, createVars, invite,
                   calls, log, run, history>>

\* list_account_aliases and the comparison with the proposed alias; iam_client is
\* bound only when the credentials were acquired (UnboundLocalError otherwise)
AliasList(i) ==
    /\ pc = "alias"
    /\ workers[i]["pc"] = "list"
    /\ LET account == deployed_accounts[i]
           aliases == iam_aliases[account["Name"]]
           listed == [op |-> "list_account_aliases", account |-> account["Name"]]
       IN  IF workers[i]["credentials"] # "ok"
           THEN workers' = [workers EXCEPT ![i]["pc"] = "raised"]
           ELSE IF aliases = <<>>
           THEN workers' = [workers EXCEPT
                  ![i]["pc"] = IF args["exec"] THEN "create" ELSE "done",
                  ![i]["aliases"] = aliases,
                  ![i]["calls"] = Append(@, listed),
                  ![i]["log"] = Append(@, LogLine("info", "setting account alias",
                                                  account["Name"]))]
           ELSE IF aliases[1] # proposed_alias(account)
           THEN workers' = [workers EXCEPT
                  ![i]["pc"] = IF args["exec"] THEN "delete" ELSE "done",
                  ![i]["aliases"] = aliases,
                  ![i]["calls"] = Append(@, listed),
                  ![i]["log"] = Append(@, LogLine("info", "resetting account alias",
                                                  account["Name"]))]
           ELSE workers' = [workers EXCEPT
                  ![i]["pc"] = "done",
                  ![i]["aliases"] = aliases,
                  ![i]["calls"] = Append(@, listed)]
    /\ UNCHANGED <<inputVars, deployed_accounts, remoteVars, pc, createVars, invite,
                   calls, log, run, history>>

\* a slip: the alias is deleted in every account that carries it
AliasDelete_everywhere(i) ==
    /\ pc = "alias"
    /\ workers[i]["pc"] = "delete"
    /\ LET account == deployed_accounts[i]
           old == workers[i]["aliases"][1]
           delete == [op |-> "delete_account_alias", account |-> account["Name"],
                      AccountAlias |-> old]
       IN  \E ok \in BOOLEAN :
              /\ workers' = [workers EXCEPT
                     ![i]["pc"] = IF ok THEN "create" ELSE "raised",
                     ![i]["calls"] = Append(@, delete)]
              /\ iam_aliases' = IF ok
                    THEN [n \in DOMAIN iam_aliases |->
                                SelectSeq(iam_aliases[n], LAMBDA al : al # old)]
                    ELSE iam_aliases
    /\ UNCHANGED <<inputVars, deployed_accounts, org_accounts, requests, handshakes,
                   pc, createVars, invite, calls, log, run, history>>

\* delete_account_alias(aliases[0]); an error of the call is not caught
AliasDelete(i) ==
    /\ pc = "alias"
    /\ workers[i]["pc"] = "delete"
    /\ LET account == deployed_accounts[i]
           old == workers[i]["aliases"][1]
           delete == [op |-> "delete_account_alias", account |-> account["Name"],
                      AccountAlias |-> old]
       IN  \E ok \in BOOLEAN :
              /\ workers' = [workers EXCEPT
                     ![i]["pc"] = IF ok THEN "create" ELSE "raised",
                     ![i]["calls"] = Append(@, delete)]
              /\ iam_aliases' = IF ok
                    THEN [iam_aliases EXCEPT ![account["Name"]] =
                                SelectSeq(@, LAMBDA al : al # old)]
                    ELSE iam_aliases
    /\ UNCHANGED <<inputVars, deployed_accounts, org_accounts, requests, handshakes,
                   pc, createVars, invite, calls, log, run, history>>

\* a slip: create_account_alias outside of the try, an error of the call escapes
AliasCreate_uncaught(i) ==
    /\ pc = "alias"
    /\ workers[i]["pc"] = "create"
    /\ LET account == deployed_accounts[i]
           create == [op |-> "create_account_alias", account |-> account["Name"],
                      AccountAlias |-> proposed_alias(account)]
       IN  \E ok \in BOOLEAN :
              /\ workers' = [workers EXCEPT
                     ![i]["pc"] = IF ok THEN "done" ELSE "raised",
                     ![i]["calls"] = Append(@, create)]
              /\ iam_aliases' = IF ok
                    THEN [iam_aliases EXCEPT ![account["Name"]] =
                                Append(@, proposed_alias(account))]
                    ELSE iam_aliases
    /\ UNCHANGED <<inputVars, deployed_accounts, org_accounts, requests, handshakes,
                   pc, createVars, invite, calls, log, run, history>>

\* create_account_alias(proposed_alias); an error of the call is logged
AliasCreate(i) ==
    /\ pc = "alias"
    /\ workers[i]["pc"] = "create"
    /\ LET account == deployed_accounts[i]
           create == [op |-> "create_account_alias", account |-> account["Name"],
                      AccountAlias |-> proposed_alias(account)]
       IN  \E ok \in BOOLEAN :
              /\ workers' = [workers EXCEPT
                     ![i]["pc"] = "done",
                     ![i]["calls"] = Append(@, create),
                     ![i]["log"] = IF ok THEN @
                                   ELSE Append(@, LogLine("error", "create_account_alias",
                                                          account["Name"]))]
              /\ iam_aliases' = IF ok
                    THEN [iam_aliases EXCEPT ![account["Name"]] =
                                Append(@, proposed_alias(account))]
                    ELSE iam_aliases
    /\ UNCHANGED <<inputVars, deployed_accounts, org_accounts, requests, handshakes,
                   pc, createVars, invite, calls, log, run, history>>

\* set_account_alias run from its first statement to its last for one account,
\* alone: the calls it issues, the aliases of the account afterwards and whether
\* it raised, given the aliases of the account before and the answers of the
\* service to its own calls
set_account_alias(account, aliases, credentials, delete_ok, create_ok) ==
    LET name == account["Name"]
        listed == [op |-> "list_account_aliases", account |-> name]
        delete == [op |-> "delete_account_alias", account |-> name,
                   AccountAlias |-> aliases[1]]
        create == [op |-> "create_account_alias", account |-> name,
                   AccountAlias |-> proposed_alias(account)]
        created == IF create_ok THEN <<proposed_alias(account)>> ELSE <<>>
    IN  IF account["Status"] # "ACTIVE"
        THEN [calls |-> <<>>, aliases |-> aliases, raised |-> FALSE]
        ELSE IF credentials # "ok"
        THEN [calls |-> <<>>, aliases |-> aliases, raised |-> TRUE]
        ELSE IF aliases = <<>>
        THEN IF args["exec"]
             THEN [calls |-> <<listed, create>>, aliases |-> created, raised |-> FALSE]
             ELSE [calls |-> <<listed>>, aliases |-> aliases, raised |-> FALSE]
        ELSE IF aliases[1] # proposed_alias(account)
        THEN IF ~args["exec"]
             THEN [calls |-> <<listed>>, aliases |-> aliases, raised |-> FALSE]
             ELSE IF ~delete_ok
             THEN [calls |-> <<listed, delete>>, aliases |-> aliases, raised |-> TRUE]
             ELSE [calls |-> <<listed, delete, create>>, aliases |-> created,
                   raised |-> FALSE]
        ELSE [calls |-> <<listed>>, aliases |-> aliases, raised |-> FALSE]

\* one step of one of the calls of set_account_alias
SetAccountAlias ==
    \E i \in DOMAIN workers :
        \/ AliasCredentials(i)
        \/ AliasList(i)
        \/ AliasDelete(i)
        \/ AliasCreate(i)

\* queue_threads returns when every queued account has been taken by a worker
\* and the call either returned or raised
AliasJoin ==
    /\ pc = "alias"
    /\ \A i \in DOMAIN workers : workers[i]["pc"] \in {"done", "raised"}
    /\ pc' = "done"
    /\ UNCHANGED <<inputVars, deployed_accounts, remoteVars, createVars, workers, invite,
                   calls, log, run, history>>

----------------------------------------------------------------------------
(* scan_invited_accounts and invite_account *)

Digits == {"0", "1", "2", "3", "4", "5", "6", "7", "8", "9"}

\* valid_account_id(log, account_id): a string of 12 digits
valid_account_id(account_id) ==
    /\ Len(account_id) = 12
    /\ \A i \in DOMAIN account_id : account_id[i] \in Digits

\* the ways the service can cut its list of handshakes into non-empty pages
RECURSIVE Pagings(_)
Pagings(hs) ==
    IF hs = <<>> THEN {<<>>}
    ELSE UNION {{<<SubSeq(hs, 1, k)>> \o rest :
                    rest \in Pagings(SubSeq(hs, k + 1, Len(hs)))} : k \in 1..Len(hs)}

\* the pages of one listing: an empty list is served as one empty page
Paginations(hs) == IF hs = <<>> THEN {<< <<>> >>} ELSE Pagings(hs)

\* list_handshakes_for_organization: page n of the listing; every page but the
\* last carries the NextToken that asks for the page after it
list_handshakes_for_organization(pages, n) ==
    IF n < Len(pages)
    THEN [Handshakes |-> pages[n], NextToken |-> n + 1]
    ELSE [Handshakes |-> pages[n]]

\* a slip: the NextToken of the first response is not followed
scan_loop_first_page(pages, response, gathered, tokens) ==
    [handshakes |-> gathered, tokens |-> tokens]

\* the while loop of scan_invited_accounts: the handshakes gathered and the
\* tokens passed to the continuation calls
RECURSIVE scan_loop(_, _, _, _)
scan_loop(pages, response, gathered, tokens) ==
    IF "NextToken" \in DOMAIN response
    THEN LET next == list_handshakes_for_organization(pages, response["NextToken"])
         IN  scan_loop(pages, next, gathered \o next["Handshakes"],
                       Append(tokens, response["NextToken"]))
    ELSE [handshakes |-> gathered, tokens |-> tokens]

scan_invited_accounts(pages) ==
    LET response == list_handshakes_for_organization(pages, 1)
    IN  scan_loop(pages, response, response["Handshakes"], <<>>)

\* the handshakes of invited_accounts whose ACCOUNT party is account_id
account_invite(invited_accounts, account_id) ==
    SelectSeq(invited_accounts,
              LAMBDA h : lookup_rkey(h["Parties"], "Type", "ACCOUNT", "Id") = account_id)

\* a slip: any handshake found for the account is taken as a pending invitation
invite_refusal_any(found) == IF found # <<>> THEN "pending" ELSE "none"

\* the state checks on the handshakes found for the account: the reason
\* invite_account refuses for, or "none"
invite_refusal(found) ==
    IF found # <<>>
    THEN LET invite_state == found[1]["State"]
         IN  IF invite_state = "ACCEPTED" THEN "accepted"
             ELSE IF invite_state \in {"REQUESTED", "OPEN"} THEN "pending"
             ELSE "none"
    ELSE "none"

Handshake(id, target, state) ==
    [Id |-> id,
     Parties |-> <<[Id |-> MasterId, Type |-> "ORGANIZATION"],
                   [Id |-> target, Type |-> "ACCOUNT"]>>,
     State |-> state]

\* a slip: the deployed accounts are not looked at
is_member_never(account_id) == FALSE

\* the account is already a member: its Id is the Id of a deployed account
is_member(account_id) == lookup(deployed_accounts, "Id", account_id) # None

\* a slip: the structural check of the account id is left out
id_invalid_never(account_id) == FALSE

\* the account id fails the structural validity check
id_invalid(account_id) == ~valid_account_id(account_id)

\* what invite_account did when it made no scan
NotScanned(outcome) ==
    [ran |-> TRUE, outcome |-> outcome, scanned |-> FALSE, pages |-> <<>>,
     tokens |-> <<>>, invited_accounts |-> <<>>, returned |-> None]

\* invite_account
InviteAccount ==
    /\ pc = "invite"
    /\ LET account_id == args["invited_account_id"]
       IN  IF account_id = <<>>
           THEN /\ log' = Append(log, LogLine("critical", "not defined", account_id))
                /\ invite' = NotScanned("exit")
                /\ pc' = "exit"
                /\ UNCHANGED <<calls, handshakes>>
           ELSE IF id_invalid(account_id)
           THEN /\ log' = Append(log, LogLine("critical", "not valid", account_id))
                /\ invite' = NotScanned("exit")
                /\ pc' = "exit"
                /\ UNCHANGED <<calls, handshakes>>
           ELSE IF is_member(account_id)
           THEN /\ log' = Append(log, LogLine("error", "already in organization",
                                              account_id))
                /\ invite' = NotScanned("member")
                /\ pc' = "done"
                /\ UNCHANGED <<calls, handshakes>>
           ELSE \E pages \in Paginations(handshakes) :
                  LET scan == scan_invited_accounts(pages)
                      lists == <<[op |-> "list_handshakes_for_organization"]>> \o
                               [k \in DOMAIN scan["tokens"] |->
                                    [op |-> "list_handshakes_for_organization",
                                     NextToken |-> scan["tokens"][k]]]
                      found == account_invite(scan["handshakes"], account_id)
                      refusal == invite_refusal(found)
                      handshake == Handshake(Len(handshakes) + 1, account_id, "REQUESTED")
                      scanned == [ran |-> TRUE, outcome |-> refusal, scanned |-> TRUE,
                                  pages |-> pages, tokens |-> scan["tokens"],
                                  invited_accounts |-> scan["handshakes"],
                                  returned |-> None]
                  IN  /\ pc' = "done"
                      /\ IF refusal # "none"
                         THEN /\ log' = Append(log, LogLine("error", refusal, account_id))
                              /\ calls' = calls \o lists
                              /\ invite' = scanned
                              /\ UNCHANGED handshakes
                         ELSE /\ IF args["exec"]
                                 THEN /\ log' = log \o
                                            <<LogLine("info", "inviting", account_id),
                                              LogLine("info", "account invite handshake Id",
                                                      handshake["Id"])>>
                                      /\ calls' = calls \o lists \o
                                            <<[op |-> "invite_account_to_organization",
                                               Target |-> [Id |-> account_id,
                                                           Type |-> "ACCOUNT"]]>>
                                      /\ handshakes' = Append(handshakes, handshake)
                                      /\ invite' = [scanned EXCEPT
                                                        !["outcome"] = "invited",
                                                        !["returned"] = handshake]
                                 ELSE /\ log' = Append(log, LogLine("info", "inviting",
                                                                    account_id))
                                      /\ calls' = calls \o lists
                                      /\ invite' = [scanned EXCEPT !["outcome"] = "dry-run"]
                                      /\ UNCHANGED handshakes
    /\ UNCHANGED <<inputVars, deployed_accounts, org_accounts, requests, iam_aliases,
                   createVars, workers, run, history>>

----------------------------------------------------------------------------
(* report mode: display_provisioned_accounts and display_invited_accounts *)

\* get_account_aliases (awsorgs.utils): the alias of each deployed account that
\* has one, by the Name of the account
get_account_aliases(accounts) ==
    LET named == {accounts[i]["Name"] : i \in DOMAIN accounts}
    IN  [n \in {m \in named : iam_aliases[m] # <<>>} |-> iam_aliases[n][1]]

\* merge_aliases (awsorgs.utils): every account gets the key Alias, empty when
\* the account has no alias
merge_aliases(accounts, aliases) ==
    [i \in DOMAIN accounts |->
        [Id |-> accounts[i]["Id"], Name |-> accounts[i]["Name"],
         Status |-> accounts[i]["Status"],
         Alias |-> IF accounts[i]["Name"] \in DOMAIN aliases
                   THEN aliases[accounts[i]["Name"]] ELSE ""]]

\* the rank of a name in the order of strings (upper case sorts before lower case)
Rank(name) == CHOOSE i \in DOMAIN NameList : NameList[i] = name

\* sorted() on a list of names: the least name first, then the others sorted
RECURSIVE sorted(_)
sorted(names) ==
    IF names = <<>> THEN <<>>
    ELSE LET m == CHOOSE i \in DOMAIN names :
                    \A j \in DOMAIN names :
                        \/ Rank(names[i]) < Rank(names[j])
                        \/ Rank(names[i]) = Rank(names[j]) /\ i <= j
             others == [j \in 1..(Len(names) - 1) |->
                            IF j < m THEN names[j] ELSE names[j + 1]]
         IN  <<names[m]>> \o sorted(others)

\* str.capitalize() on the two statuses display_provisioned_accounts reports on
capitalize(status) == IF status = "ACTIVE" THEN "Active" ELSE "Suspended"

\* display_provisioned_accounts: a status other than ACTIVE and SUSPENDED raises
\* RuntimeError before anything is logged; else the log records of the report on
\* the accounts in the status: nothing when there is no such account, else a
\* header, the column titles and a row for each account, in the order of the names
display_provisioned_accounts(accounts, status) ==
    IF status \notin {"ACTIVE", "SUSPENDED"}
    THEN [raised |-> TRUE, log |-> <<>>]
    ELSE
    LET in_status == SelectSeq(accounts, LAMBDA a : a["Status"] = status)
        sorted_account_names == sorted([i \in DOMAIN in_status |-> in_status[i]["Name"]])
    IN  IF sorted_account_names = <<>> THEN [raised |-> FALSE, log |-> <<>>]
        ELSE [raised |-> FALSE,
              log |->
                <<LogLine("info", "Accounts in Org", capitalize(status)),
                  LogLine("info", "columns", <<"Name:", "Alias", "Id:", "Email:">>)>> \o
                [k \in DOMAIN sorted_account_names |->
                   LET account == lookup(accounts, "Name", sorted_account_names[k])
                   IN  [level |-> "info", event |-> "account",
                        subject |-> sorted_account_names[k],
                        Alias |-> account["Alias"], Id |-> account["Id"]]]]

\* display_invited_accounts, after its scan: nothing when the organization has no
\* handshake, else a header, the column titles and a row for each handshake
display_invited_accounts(invited_accounts) ==
    IF invited_accounts = <<>> THEN <<>>
    ELSE <<LogLine("info", "Invited Accounts in Org", None),
           LogLine("info", "columns", <<"Id:", "State:", "Expires:">>)>> \o
         [k \in DOMAIN invited_accounts |->
            [level |-> "info", event |-> "invite",
             subject |-> lookup_rkey(invited_accounts[k]["Parties"],
                                     "Type", "ACCOUNT", "Id"),
             State |-> invited_accounts[k]["State"]]]

\* main(), report mode: the aliases are merged into the snapshot, the accounts
\* are reported by status, the handshakes are scanned and reported, main returns;
\* an exception of a report ends main() where it is raised
Report ==
    /\ pc = "report"
    /\ \E pages \in Paginations(handshakes) :
          LET aliases == get_account_aliases(deployed_accounts)
              merged == merge_aliases(deployed_accounts, aliases)
              scan == scan_invited_accounts(pages)
              lists == <<[op |-> "list_handshakes_for_organization"]>> \o
                       [k \in DOMAIN scan["tokens"] |->
                            [op |-> "list_handshakes_for_organization",
                             NextToken |-> scan["tokens"][k]]]
              active == display_provisioned_accounts(merged, "ACTIVE")
              suspended == display_provisioned_accounts(merged, "SUSPENDED")
          IN  /\ deployed_accounts' = merged
              /\ IF active["raised"]
                 THEN /\ log' = log \o active["log"]
                      /\ pc' = "raised"
                      /\ UNCHANGED calls
                 ELSE IF suspended["raised"]
                 THEN /\ log' = log \o active["log"] \o suspended["log"]
                      /\ pc' = "raised"
                      /\ UNCHANGED calls
                 ELSE /\ log' = log \o active["log"] \o suspended["log"]
                                    \o display_invited_accounts(scan["handshakes"])
                      /\ calls' = calls \o lists
                      /\ pc' = "done"
    /\ UNCHANGED <<inputVars, remoteVars, createVars, workers, invite, run, history>>

----------------------------------------------------------------------------
(* main *)

\* main() up to the dispatch on the mode: get_assume_role_credentials for the
\* master account returns the credentials or a RuntimeError, on which the process
\* logs it and exits before any remote call; else the snapshot of the deployed
\* accounts is taken and the mode selects the handler
MainStart ==
    /\ pc = "start"
    /\ \E credentials \in {"ok", "RuntimeError"} :
          IF credentials = "RuntimeError"
          THEN /\ log' = Append(log, LogLine("critical", "credentials", "RuntimeError"))
               /\ pc' = "exit"
               /\ UNCHANGED <<deployed_accounts, calls, workers, history>>
          ELSE /\ deployed_accounts' = scan_deployed_accounts
               /\ calls' = Append(calls, [op |-> "list_accounts"])
               /\ pc' = IF args["mode"] = "report" THEN "report"
                        ELSE IF args["mode"] = "create" THEN "create_loop"
                        ELSE IF args["mode"] = "alias" THEN "alias"
                        ELSE "invite"
               /\ workers' = IF args["mode"] = "alias"
                             THEN [i \in DOMAIN scan_deployed_accounts |-> NewWorker]
                             ELSE workers
               /\ history' = IF history = <<>> THEN history
                             ELSE [history EXCEPT ![Len(history)]["succeeded"] =
                                       \A id \in history[Len(history)]["created"] :
                                           requests[id]["State"] = "SUCCEEDED"]
               /\ UNCHANGED log
    /\ UNCHANGED <<inputVars, remoteVars, createVars, invite, run>>

\* the operator runs the tool again, with the same arguments and specification,
\* in a behaviour of at most maxruns invocations
InvokeUpTo(maxruns) ==
    /\ pc = "done"
    /\ args["mode"] \in {"create", "invite"}
    /\ run < maxruns
    /\ run' = run + 1
    /\ history' = Append(history,
            [exec |-> args["exec"], halted |-> halted,
             created |-> {c["Id"] : c \in Range(CallsOf("create_account"))},
             invited |-> Len(CallsOf("invite_account_to_organization")),
             succeeded |-> FALSE])
    /\ pc' = "start"
    /\ calls' = <<>>
    /\ log' = <<>>
    /\ halted' = FALSE
    /\ idx' = 1
    /\ create_id' = 0
    /\ counter' = 0
    /\ polls' = <<>>
    /\ scans' = <<>>
    /\ deployed_accounts' = <<>>
    /\ invite' = NoInvite
    /\ UNCHANGED <<inputVars, remoteVars, workers>>

\* create is run again
Invoke == args["mode"] = "create" /\ InvokeUpTo(MaxRuns)

----------------------------------------------------------------------------
(* The remote service *)

\* the run is under way: the service goes on while the program issues its
\* calls, sleeps between two polls, and between two runs
Running == pc \in {"start", "create_loop", "create_account", "poll", "sleep",
                   "create_end"}

\* a creation request in progress reaches a final state
RequestCompletes ==
    /\ args["mode"] = "create"
    /\ Running
    /\ \E i \in DOMAIN requests, s \in {"SUCCEEDED", "FAILED"} :
          /\ requests[i]["State"] = "IN_PROGRESS"
          /\ requests' = [requests EXCEPT ![i]["State"] = s]
    /\ UNCHANGED <<inputVars, deployed_accounts, org_accounts, handshakes, iam_aliases,
                   pc, createVars, workers, invite, calls, log, run, history>>

\* the account of a succeeded request becomes visible in the list of accounts
\* (the program reads the list only in main(), before the dispatch on the mode)
AccountAppears ==
    /\ args["mode"] = "create"
    /\ Running
    /\ \E i \in DOMAIN requests :
          /\ requests[i]["State"] = "SUCCEEDED"
          /\ lookup(org_accounts, "Name", requests[i]["AccountName"]) = None
          /\ org_accounts' = Append(org_accounts,
                [Id |-> IdOf(requests[i]["AccountName"]),
                 Name |-> requests[i]["AccountName"],
                 Status |-> "ACTIVE"])
    /\ UNCHANGED <<inputVars, deployed_accounts, requests, handshakes, iam_aliases,
                   pc, createVars, workers, invite, calls, log, run, history>>

\* a pending handshake moves on: it is opened, or it ends accepted, cancelled,
\* declined or expired; the account of an accepted handshake joins the organization
HandshakeChanges ==
    /\ args["mode"] = "invite"
    /\ pc = "start"
    /\ \E i \in DOMAIN handshakes, s \in HandshakeStates \ {"REQUESTED"} :
          /\ handshakes[i]["State"] \in {"REQUESTED", "OPEN"}
          /\ handshakes[i]["State"] # s
          /\ handshakes' = [handshakes EXCEPT ![i]["State"] = s]
          /\ LET id == handshakes[i]["Parties"][2]["Id"]
             IN  org_accounts' =
                    IF s = "ACCEPTED" /\ lookup(org_accounts, "Id", id) = None
                    THEN Append(org_accounts, Account(NameOf(id), "ACTIVE"))
                    ELSE org_accounts
    /\ UNCHANGED <<inputVars, deployed_accounts, requests, iam_aliases, pc, createVars,
                   workers, invite, calls, log, run, history>>

----------------------------------------------------------------------------
(* Initial states *)

\* the entries of the specifications in create mode: with no Email key, with an
\* Email, with an empty Email
CreateEntries == {[Name |-> "Dev"],
                  [Name |-> "Dev", Email |-> GivenEmail],
                  [Name |-> "ops", Email |-> ""]}

\* the specifications: Name is the unique key of an entry
Specs(entries) == {s \in SeqsUpTo(entries, MaxSpec) : UniqueBy(s, "Name")}

\* lists of accounts with distinct names, in the order the service lists them
AccountLists(statuses) ==
    {[i \in DOMAIN names |-> Account(names[i], st[names[i]])] :
        names \in {SelectSeq(NameList, LAMBDA n : n \in S) : S \in SUBSET Names},
        st \in [Names -> statuses]}

\* the creation requests that exist before the first run: at most one for a name
\* (a failed request is never listed by scan_created_accounts, and the program
\* polls only the requests it submitted)
PreRequests ==
    {[i \in DOMAIN names |-> [AccountName |-> names[i], State |-> st[names[i]]]] :
        names \in {SelectSeq(NameList, LAMBDA n : n \in S) : S \in SUBSET Names},
        st \in [Names -> {"IN_PROGRESS", "SUCCEEDED"}]}

WithIds(s) == [i \in DOMAIN s |->
                [Id |-> i, AccountName |-> s[i]["AccountName"], State |-> s[i]["State"]]]

InitCreate ==
    /\ args \in [mode : {"create"}, exec : BOOLEAN, invited_account_id : {<<>>}]
    /\ account_spec \in [default_domain : {DefaultDomain}, accounts : Specs(CreateEntries)]
    /\ org_accounts \in AccountLists({"ACTIVE"})
    /\ requests \in {WithIds(s) : s \in PreRequests}
    /\ handshakes = <<>>
    /\ iam_aliases = [n \in Names |-> <<>>]

\* the entries of the specifications in alias mode: with and without an Alias
AliasEntries == {[Name |-> "Dev"],
                 [Name |-> "Dev", Alias |-> "custom"],
                 [Name |-> "ops"],
                 [Name |-> "ops", Alias |-> "dev"]}

\* an account has at most one alias
AliasLists == {<<>>, <<"dev">>, <<"old">>}

InitAlias ==
    /\ args \in [mode : {"alias"}, exec : BOOLEAN, invited_account_id : {<<>>}]
    /\ account_spec \in [default_domain : {DefaultDomain}, accounts : Specs(AliasEntries)]
    /\ org_accounts \in AccountLists({"ACTIVE", "SUSPENDED"})
    /\ requests = <<>>
    /\ handshakes = <<>>
    /\ iam_aliases \in {f \in [Names -> AliasLists] :
            \A n \in Names : lookup(org_accounts, "Name", n) = None => f[n] = <<>>}

\* ids given as --invited-account-id: none, an account id, 11 digits, a letter
InvitedIds == {<<>>,
               IdOf("Dev"),
               <<"1","1","1","1","1","1","1","1","1","1","1">>,
               <<"1","1","1","1","1","1","1","1","1","1","1","x">>}

InitialHandshakes ==
    {[i \in DOMAIN s |-> Handshake(i, IdOf(s[i][1]), s[i][2])] :
        s \in SeqsUpTo(Names \X HandshakeStates, MaxHandshakes)}

InitInvite ==
    /\ args \in [mode : {"invite"}, exec : BOOLEAN, invited_account_id : InvitedIds]
    /\ account_spec = [default_domain |-> DefaultDomain, accounts |-> <<>>]
    /\ org_accounts \in AccountLists({"ACTIVE"})
    /\ requests = <<>>
    /\ handshakes \in InitialHandshakes
    /\ iam_aliases = [n \in Names |-> <<>>]

\* a list in the opposite order
Reverse(s) == [i \in DOMAIN s |-> s[Len(s) + 1 - i]]

\* the handshakes of the organization in report mode
ReportHandshakes ==
    {hs \in InitialHandshakes :
        \A i \in DOMAIN hs : hs[i]["State"] \in {"OPEN", "ACCEPTED"}}

\* report mode: the service lists the accounts in any order
InitReport ==
    /\ args \in [mode : {"report"}, exec : BOOLEAN, invited_account_id : {<<>>}]
    /\ account_spec = [default_domain |-> DefaultDomain, accounts |-> <<>>]
    /\ org_accounts \in
            AccountLists({"ACTIVE", "SUSPENDED"}) \cup
            {Reverse(l) : l \in AccountLists({"ACTIVE", "SUSPENDED"})}
    /\ requests = <<>>
    /\ handshakes \in ReportHandshakes
    /\ iam_aliases \in {f \in [Names -> {<<>>, <<"dev">>}] :
            \A n \in Names : lookup(org_accounts, "Name", n) = None => f[n] = <<>>}

Init ==
    /\ InitReport \/ InitCreate \/ InitAlias \/ InitInvite
    /\ deployed_accounts = <<>>
    /\ pc = "start"
    /\ idx = 1
    /\ create_id = 0
    /\ counter = 0
    /\ halted = FALSE
    /\ polls = <<>>
    /\ scans = <<>>
    /\ workers = <<>>
    /\ invite = NoInvite
    /\ calls = <<>>
    /\ log = <<>>
    /\ run = 1
    /\ history = <<>>

Next ==
    \/ MainStart
    \/ Report
    \/ CreateEntry
    \/ CreateAccount
    \/ Poll
    \/ Sleep
    \/ CreateLoopExit
    \/ MainCreateEnd
    \/ SetAccountAlias
    \/ AliasJoin
    \/ InviteAccount
    \/ RequestCompletes
    \/ AccountAppears
    \/ HandshakeChanges

\* One invocation of the tool, in any mode, on any state of the organization.
Spec == Init /\ [][Next]_vars

\* Repeated creation: create is run with --exec again and again on the same
\* specification, from an organization with any member accounts and at most one
\* creation request, completed before the first run, while the service completes
\* the requests the runs submit and lists the new accounts during and between
\* the runs.
InitRerun ==
    /\ Init
    /\ args["mode"] = "create"
    /\ args["exec"]
    /\ Len(requests) <= 1
    /\ \A i \in DOMAIN requests : requests[i]["State"] = "SUCCEEDED"

NextRerun ==
    \/ MainStart
    \/ CreateEntry
    \/ CreateAccount
    \/ Poll
    \/ Sleep
    \/ CreateLoopExit
    \/ MainCreateEnd
    \/ Invoke
    \/ RequestCompletes
    \/ AccountAppears

SpecRerun == InitRerun /\ [][NextRerun]_vars

\* Polling: one exec run of create on an organization without creation requests,
\* while the service completes the requests the run submits and lists the new
\* accounts.  The process keeps running: a poll that is due is made, and
\* time.sleep(5) returns.
InitPolling ==
    /\ Init
    /\ args["mode"] = "create"
    /\ args["exec"]
    /\ requests = <<>>

NextPolling ==
    \/ MainStart
    \/ CreateEntry
    \/ CreateAccount
    \/ Poll
    \/ Sleep
    \/ CreateLoopExit
    \/ MainCreateEnd
    \/ RequestCompletes
    \/ AccountAppears

SpecPolling == InitPolling /\ [][NextPolling]_vars /\ WF_vars(Poll) /\ WF_vars(Sleep)

\* Repeated invitations: the tool is run in invite mode again and again against an
\* organization that holds no handshake at first, while the handshakes it creates
\* move on between the runs.
InitInviteFresh ==
    /\ Init
    /\ args["mode"] = "invite"
    /\ handshakes = <<>>

InvokeInvite == InvokeUpTo(MaxInviteRuns)

NextInvite ==
    \/ MainStart
    \/ InviteAccount
    \/ InvokeInvite
    \/ HandshakeChanges

SpecInvite == InitInviteFresh /\ [][NextInvite]_vars

\* Preview and execution: create is run without --exec, then run again with
\* --exec on the same specification, while the service completes creation
\* requests and lists new accounts during and between the two runs.
InitPreview ==
    /\ Init
    /\ args["mode"] = "create"
    /\ ~args["exec"]

\* the operator runs create again, now with --exec; the accounts the dry run
\* logged as 'Creating account', its snapshot of the deployed accounts, what its
\* scans returned and the number of creation requests it left are kept for the
\* comparison
InvokeExec ==
    /\ pc = "done"
    /\ args["mode"] = "create"
    /\ ~args["exec"]
    /\ run = 1
    /\ run' = run + 1
    /\ args' = [args EXCEPT !["exec"] = TRUE]
    /\ history' = Append(history,
            [exec |-> FALSE, halted |-> halted, created |-> {}, invited |-> 0,
             succeeded |-> FALSE,
             deployed |-> deployed_accounts,
             scans |-> scans,
             requests |-> Len(requests),
             previewed |->
                LET lines == SelectSeq(log, LAMBDA l : l["event"] = "Creating account")
                IN  [k \in DOMAIN lines |-> lines[k]["subject"]]])
    /\ pc' = "start"
    /\ calls' = <<>>
    /\ log' = <<>>
    /\ halted' = FALSE
    /\ idx' = 1
    /\ create_id' = 0
    /\ counter' = 0
    /\ polls' = <<>>
    /\ scans' = <<>>
    /\ deployed_accounts' = <<>>
    /\ UNCHANGED <<account_spec, remoteVars, workers, invite>>

NextPreview ==
    \/ MainStart
    \/ CreateEntry
    \/ CreateAccount
    \/ Poll
    \/ Sleep
    \/ CreateLoopExit
    \/ MainCreateEnd
    \/ InvokeExec
    \/ RequestCompletes
    \/ AccountAppears

SpecPreview == InitPreview /\ [][NextPreview]_vars

----------------------------------------------------------------------------
(* Observations the properties are stated with *)

\* every remote call the current run has issued, the polls apart
AllCalls == Range(calls) \cup UNION {Range(workers[i]["calls"]) : i \in DOMAIN workers}

ReadOps == {"list_accounts", "list_create_account_status", "list_account_aliases",
            "list_handshakes_for_organization"}

\* the log holds a record of the event
Logged(event) == \E i \in DOMAIN log : log[i]["event"] = event

\* the invitation calls of the current run
InviteCalls == CallsOf("invite_account_to_organization")

CreateCalls == CallsOf("create_account")

\* the handshakes of a list whose ACCOUNT party is the account
HandshakesFor(hs, account_id) ==
    {i \in DOMAIN hs : \E k \in DOMAIN hs[i]["Parties"] :
        /\ hs[i]["Parties"][k]["Type"] = "ACCOUNT"
        /\ hs[i]["Parties"][k]["Id"] = account_id}

----------------------------------------------------------------------------
(* Properties *)

\* C1: without --exec no mutating remote call is issued in any mode (create, alias,
\* invite): every call of the run is a list call, and no creation is polled.
C1_DryRunIssuesNoMutatingCall ==
    ~args["exec"] =>
        /\ \A c \in AllCalls : c["op"] \in ReadOps /\ c["op"] \notin MutatingOps
        /\ polls = <<>>

\* C1 witness: a dry run of create has finished and had an account to create
C1_Witness ==
    /\ ~args["exec"]
    /\ args["mode"] = "create"
    /\ pc = "done"
    /\ Logged("Creating account")

\* C2 as claimed: invite_account refuses whenever the scan returned a handshake for
\* the account in state ACCEPTED, REQUESTED or OPEN, wherever it stands in the list:
\* no invitation call is issued and no handshake is returned.
C2_RefusesOnAnyBlockingHandshake ==
    (/\ invite["ran"]
     /\ invite["scanned"]
     /\ \E i \in HandshakesFor(invite["invited_accounts"], args["invited_account_id"]) :
            invite["invited_accounts"][i]["State"] \in {"ACCEPTED", "REQUESTED", "OPEN"})
    => /\ InviteCalls = <<>>
       /\ invite["returned"] = None

\* the summary of the invocation before the current one
Previous == history[Len(history)]

\* the current run is a later exec run of create that has taken its snapshot, and
\* every creation the exec run before it submitted had reached SUCCEEDED by then
SecondRunAfterSuccess ==
    /\ args["mode"] = "create"
    /\ args["exec"]
    /\ history # <<>>
    /\ pc # "start"
    /\ Previous["exec"]
    /\ Previous["succeeded"]

\* C3 as claimed: after an exec run of create in which every submitted creation
\* reached SUCCEEDED, a second exec run with the same spec issues no create_account.
C3_SecondRunCreatesNothing ==
    SecondRunAfterSuccess => CallsOf("create_account") = <<>>

\* C3 amended: the same, for a first run that processed every spec entry, that is,
\* was not halted by a collision before it reached the later entries.
C3_SecondRunCreatesNothingAfterFullRun ==
    (SecondRunAfterSuccess /\ ~Previous["halted"]) => CallsOf("create_account") = <<>>

\* C3 witness: the second run has finished after a first run that created two
\* accounts; one is visible in the deployed accounts, the other only as a
\* creation request, on which the second run stopped
C3_Witness ==
    /\ SecondRunAfterSuccess
    /\ ~Previous["halted"]
    /\ Cardinality(Previous["created"]) = 2
    /\ pc = "done"
    /\ halted
    /\ \E id \in Previous["created"] : is_deployed(requests[id]["AccountName"])

\* the alias the claims expect for an account: the Alias of its spec entry if the
\* entry has one, else its Name in lower case
ExpectedAlias(account) ==
    LET entries == {k \in DOMAIN account_spec["accounts"] :
                        /\ account_spec["accounts"][k]["Name"] = account["Name"]
                        /\ "Alias" \in DOMAIN account_spec["accounts"][k]}
    IN  IF entries # {}
        THEN account_spec["accounts"][CHOOSE k \in entries : TRUE]["Alias"]
        ELSE lower(account["Name"])

\* the aliases account i had when its set_account_alias call started
AliasBefore(i) ==
    IF workers[i]["calls"] # <<>>
    THEN workers[i]["aliases"]
    ELSE iam_aliases[deployed_accounts[i]["Name"]]

\* the mutating calls of the set_account_alias call of account i, in order
AliasMutations(i) ==
    LET m == SelectSeq(workers[i]["calls"], LAMBDA c : c["op"] \in MutatingOps)
    IN  [k \in DOMAIN m |-> <<m[k]["op"], m[k]["AccountAlias"]>>]

\* the call of account i logged no error
NoErrorLogged(i) ==
    \A k \in DOMAIN workers[i]["log"] : workers[i]["log"][k]["level"] # "error"

\* the calls the claim expects of the set_account_alias call of account i, and
\* the alias it expects afterwards
Converged(i) ==
    LET before == AliasBefore(i)
        proposed == ExpectedAlias(deployed_accounts[i])
    IN  /\ before = <<>> =>
                AliasMutations(i) = << <<"create_account_alias", proposed>> >>
        /\ (before # <<>> /\ before[1] # proposed) =>
                AliasMutations(i) = << <<"delete_account_alias", before[1]>>,
                                       <<"create_account_alias", proposed>> >>
        /\ (before # <<>> /\ before[1] = proposed) => AliasMutations(i) = <<>>
        /\ NoErrorLogged(i) => iam_aliases[deployed_accounts[i]["Name"]] = <<proposed>>

\* C4 as claimed: in exec mode every finished set_account_alias call for an ACTIVE
\* account has issued one create for an account without alias, one delete then one
\* create for a differing alias, nothing for a matching alias; the alias afterwards
\* is the proposed alias when all calls succeeded.  A call whose credentials
\* cannot be acquired, or whose delete_account_alias fails, ends with an
\* exception that escapes set_account_alias before the create is issued.
C4_AliasConvergence ==
    \A i \in DOMAIN workers :
        (/\ args["exec"]
         /\ deployed_accounts[i]["Status"] = "ACTIVE"
         /\ workers[i]["pc"] \in {"done", "raised"})
        => Converged(i)

\* C5 as claimed: when the credentials of an account cannot be acquired,
\* set_account_alias logs the error, issues no IAM call for the account and does
\* not raise.
C5_CredentialFailureIsIsolated ==
    \A i \in DOMAIN workers :
        workers[i]["credentials"] = "RuntimeError" =>
            /\ ~NoErrorLogged(i)
            /\ workers[i]["calls"] = <<>>
            /\ workers[i]["pc"] # "raised"

\* C6: every creation create_accounts submits is polled, the polls are polls of
\* the request just submitted, at least one and at most 5 are made, none follows a
\* poll that returned SUCCEEDED or FAILED, and the polling of a creation ends
\* whatever states the service returns and whenever the request leaves
\* IN_PROGRESS.
C6_BoundedPolling ==
    /\ [](Len(polls) <= maxtries)
    /\ [](pc \in Polling =>
            \E c \in Range(CreateCalls) : c["Id"] = create_id /\ c["entry"] = idx)
    /\ [][Len(CreateCalls') > Len(CreateCalls) => (pc' = "poll" /\ polls' = <<>>)]_vars
    /\ [][(polls' # polls /\ polls' # <<>>) =>
            (/\ pc = "poll"
             /\ Len(polls) < maxtries
             /\ \A k \in DOMAIN polls : polls[k] = "IN_PROGRESS"
             /\ polls' = Append(polls, requests[create_id]["State"]))]_vars
    /\ [][(pc \in Polling /\ pc' \notin Polling) =>
            (/\ Len(polls') >= 1
             /\ polls'[Len(polls')] = "IN_PROGRESS" => Len(polls') = maxtries)]_vars
    /\ (pc \in Polling) ~> (pc \notin Polling)

\* C6 witness: a creation stayed in progress through five polls, and the polling
\* has ended
C6_Witness ==
    /\ create_id # 0
    /\ Len(polls) = 5
    /\ \A k \in DOMAIN polls : polls[k] = "IN_PROGRESS"
    /\ requests[create_id]["State"] = "IN_PROGRESS"
    /\ pc \notin Polling

\* C7: for a valid account id that is the Id of a deployed account, invite_account
\* issues no invitation call, lists no handshakes, returns no handshake and does
\* not exit.
C7_MemberIsRefused ==
    (/\ invite["ran"]
     /\ valid_account_id(args["invited_account_id"])
     /\ \E k \in DOMAIN deployed_accounts :
            deployed_accounts[k]["Id"] = args["invited_account_id"])
    => /\ InviteCalls = <<>>
       /\ CallsOf("list_handshakes_for_organization") = <<>>
       /\ ~invite["scanned"]
       /\ invite["returned"] = None
       /\ pc = "done"

\* C7 witness: an exec invite of a member was refused while handshakes exist
C7_Witness ==
    /\ invite["ran"]
    /\ args["exec"]
    /\ invite["outcome"] = "member"
    /\ handshakes # <<>>
    /\ pc = "done"

\* the entry create_accounts is about to process is absent from the deployed
\* accounts and a succeeded creation request carries its name
Colliding ==
    /\ pc = "create_loop"
    /\ idx <= Len(account_spec["accounts"])
    /\ \A k \in DOMAIN deployed_accounts :
            deployed_accounts[k]["Name"] # account_spec["accounts"][idx]["Name"]
    /\ \E r \in Range(requests) :
            /\ r["State"] = "SUCCEEDED"
            /\ r["AccountName"] = account_spec["accounts"][idx]["Name"]

\* C8: the create_account calls of a run follow the order of the spec entries, and
\* when the entry being processed collides with a creation request the run leaves
\* the loop with no create_account call for it, and issues none afterwards.
C8_CollisionHaltsCreation ==
    /\ [](\A j, k \in DOMAIN CreateCalls :
            j < k => CreateCalls[j]["entry"] < CreateCalls[k]["entry"])
    /\ [][(Colliding /\ (pc' # pc \/ idx' # idx \/ calls' # calls))
            => (pc' = "create_end" /\ CreateCalls' = CreateCalls)]_vars
    /\ [][(pc = "create_end")
            => (pc' \in {"create_end", "done"} /\ CreateCalls' = CreateCalls)]_vars

\* C8 witness: an exec run was halted at an entry that is followed by an entry
\* that is neither deployed nor being provisioned
C8_Witness ==
    /\ args["exec"]
    /\ halted
    /\ pc = "done"
    /\ \E j \in DOMAIN account_spec["accounts"] :
          /\ j > idx
          /\ \A k \in DOMAIN deployed_accounts :
                deployed_accounts[k]["Name"] # account_spec["accounts"][j]["Name"]
          /\ \A r \in Range(requests) :
                r["AccountName"] # account_spec["accounts"][j]["Name"]

\* the concatenation of the pages of a listing
RECURSIVE Flatten(_)
Flatten(pages) == IF pages = <<>> THEN <<>> ELSE Head(pages) \o Flatten(Tail(pages))

\* C9: for a listing of k pages scan_invited_accounts issues k list calls, the
\* first with no token and each later one with the NextToken of the response
\* before it, and returns the pages' handshakes in page order, each once.
C9_PaginationComplete ==
    (invite["ran"] /\ invite["scanned"]) =>
        LET k == Len(invite["pages"])
            lists == CallsOf("list_handshakes_for_organization")
        IN  /\ Len(lists) = k
            /\ "NextToken" \notin DOMAIN lists[1]
            /\ \A j \in 2..k : lists[j]["NextToken"] = j
            /\ invite["tokens"] = [j \in 1..(k - 1) |-> j + 1]
            /\ invite["invited_accounts"] = Flatten(invite["pages"])
            /\ \A i, j \in DOMAIN invite["invited_accounts"] :
                    invite["invited_accounts"][i]["Id"] = invite["invited_accounts"][j]["Id"]
                    => i = j

\* C9 witness: a scan of a listing of two pages of one handshake each, the second
\* page fetched with the token of the first response
C9_Witness ==
    /\ invite["ran"]
    /\ invite["scanned"]
    /\ Len(invite["pages"]) = 2
    /\ invite["tokens"] = <<2>>
    /\ Len(invite["invited_accounts"]) = 2

\* the email the claims expect for a spec entry
ExpectedEmail(entry) ==
    IF "Email" \in DOMAIN entry /\ entry["Email"] # ""
    THEN entry["Email"]
    ELSE entry["Name"] \o "@" \o DefaultDomain

\* every succeeded creation request that carries the name of a spec entry was
\* submitted by the current run
NoCollidingRequest ==
    \A r \in Range(requests) :
        (/\ r["State"] = "SUCCEEDED"
         /\ \E k \in DOMAIN account_spec["accounts"] :
                account_spec["accounts"][k]["Name"] = r["AccountName"])
        => \E c \in Range(CreateCalls) : c["Id"] = r["Id"]

\* C10: every create_account call carries the Name of its spec entry and the
\* entry's Email if it has a non-empty one, else Name@default_domain; an exec run
\* against no deployed accounts and no colliding creation requests has issued,
\* when create_accounts returns, one call for each spec entry, in spec order.
C10_CreatedAccountIdentity ==
    args["mode"] = "create" =>
        /\ \A c \in Range(CreateCalls) :
              /\ c["AccountName"] = account_spec["accounts"][c["entry"]]["Name"]
              /\ c["Email"] = ExpectedEmail(account_spec["accounts"][c["entry"]])
        /\ (/\ pc \in {"create_end", "done"}
            /\ args["exec"]
            /\ deployed_accounts = <<>>
            /\ NoCollidingRequest)
           => [k \in DOMAIN CreateCalls |-> CreateCalls[k]["entry"]]
                = [k \in DOMAIN account_spec["accounts"] |-> k]

\* C10 witness: an exec run against no deployed accounts has created two accounts,
\* one with the email of its entry and one, whose Email is empty, with the default
C10_Witness ==
    /\ pc = "done"
    /\ args["exec"]
    /\ deployed_accounts = <<>>
    /\ NoCollidingRequest
    /\ Len(CreateCalls) = 2
    /\ \E c \in Range(CreateCalls) : c["Email"] = GivenEmail
    /\ \E c \in Range(CreateCalls) : c["Email"] = "ops@example.org"

\* the calls invite_account itself has issued (main() listed the accounts before)
InviteAccountCalls == SelectSeq(calls, LAMBDA c : c["op"] # "list_accounts")

\* the account id given is the Id of an account of the snapshot
GivenIdIsMember ==
    \E k \in DOMAIN deployed_accounts :
        deployed_accounts[k]["Id"] = args["invited_account_id"]

\* the account id given is a string of 12 digits
GivenIdIsValid ==
    /\ Len(args["invited_account_id"]) = 12
    /\ \A k \in 1..Len(args["invited_account_id"]) :
            args["invited_account_id"][k] \in Digits

\* C11: a missing or structurally invalid --invited-account-id ends the process
\* with a critical log record before invite_account makes any remote call (no
\* handshake scan, no invitation); the checks run in the order validity, then
\* membership, then handshake state: the process exits exactly for an invalid id,
\* a valid id of a member is refused as a member whatever its handshakes are, and
\* the handshakes are scanned exactly for a valid id that is not a member.
C11_ValidationIsFatalAndFirst ==
    invite["ran"] =>
        /\ ~GivenIdIsValid =>
              /\ pc = "exit"
              /\ invite["outcome"] = "exit"
              /\ InviteAccountCalls = <<>>
              /\ ~invite["scanned"]
              /\ invite["returned"] = None
              /\ log[Len(log)]["level"] = "critical"
        /\ GivenIdIsValid => pc = "done" /\ invite["outcome"] # "exit"
        /\ (GivenIdIsValid /\ GivenIdIsMember) =>
              invite["outcome"] = "member" /\ ~invite["scanned"]
        /\ (GivenIdIsValid /\ ~GivenIdIsMember) =>
              invite["scanned"] /\ invite["outcome"] # "member"

\* C11 witness: an exec invite with a malformed id (12 characters, one a letter)
\* has exited while the organization holds handshakes
C11_Witness ==
    /\ invite["ran"]
    /\ args["exec"]
    /\ pc = "exit"
    /\ Len(args["invited_account_id"]) = 12
    /\ handshakes # <<>>

\* the names of the accounts of the snapshot that no spec entry names
UnmanagedNames ==
    {deployed_accounts[k]["Name"] : k \in DOMAIN deployed_accounts} \
    {account_spec["accounts"][k]["Name"] : k \in DOMAIN account_spec["accounts"]}

\* the warnings about unmanaged accounts in the log of the run
UnmanagedReports == SelectSeq(log, LAMBDA l : l["event"] = "Unmanaged accounts")

\* the name of the account a mutating call acts on
TargetOf(c) ==
    IF c["op"] = "create_account" THEN c["AccountName"]
    ELSE IF c["op"] = "invite_account_to_organization" THEN NameOf(c["Target"]["Id"])
    ELSE c["account"]

\* a finished run of create has reported exactly the unmanaged names, once, if
\* there are any, whether or not the loop was left on a collision
UnmanagedAreReported ==
    (args["mode"] = "create" /\ pc = "done") =>
        IF UnmanagedNames = {}
        THEN UnmanagedReports = <<>>
        ELSE /\ Len(UnmanagedReports) = 1
             /\ Range(UnmanagedReports[1]["subject"]) = UnmanagedNames
             /\ Len(UnmanagedReports[1]["subject"]) = Cardinality(UnmanagedNames)

\* C12 as claimed: the unmanaged set reported in create mode is exactly the names
\* of deployed accounts in no spec entry, halted or not, and in no mode does a
\* mutating remote call act on an unmanaged account.
C12_UnmanagedOnlyReported ==
    /\ UnmanagedAreReported
    /\ \A c \in AllCalls : c["op"] \in MutatingOps => TargetOf(c) \notin UnmanagedNames

\* C12 amended: the same report; no call removes or closes an account in any mode,
\* and in create and invite mode no mutating call acts on an unmanaged account; in
\* alias mode the only mutating calls on an unmanaged account are the alias calls
\* of set_account_alias, which treats it as an account without Alias in the spec
\* (an alias it creates is the lower-case Name).
C12_UnmanagedNeverRemoved ==
    /\ UnmanagedAreReported
    /\ \A c \in AllCalls : c["op"] \in ReadOps \cup MutatingOps
    /\ \A c \in AllCalls :
          (c["op"] \in MutatingOps /\ TargetOf(c) \in UnmanagedNames) =>
              /\ args["mode"] = "alias"
              /\ c["op"] \in {"create_account_alias", "delete_account_alias"}
              /\ c["op"] = "create_account_alias" =>
                    c["AccountAlias"] = lower(c["account"])

\* C12 witness: an exec run of create that was halted on a collision has
\* reported an unmanaged account
C12_Witness ==
    /\ args["mode"] = "create"
    /\ args["exec"]
    /\ pc = "done"
    /\ halted
    /\ UnmanagedNames # {}
    /\ Len(UnmanagedReports) = 1

\* C13 as claimed: starting with no handshake, after any sequence of invite runs
\* for an account interleaved with the transitions of its handshakes, no two
\* handshakes for the same target account are REQUESTED or OPEN at the same time.
C13_AtMostOnePendingInvitation ==
    \A i, j \in DOMAIN handshakes :
        (/\ handshakes[i]["Parties"][2]["Id"] = handshakes[j]["Parties"][2]["Id"]
         /\ handshakes[i]["State"] \in {"REQUESTED", "OPEN"}
         /\ handshakes[j]["State"] \in {"REQUESTED", "OPEN"})
        => i = j

\* what the last scan of the creation requests returned
created_accounts == scans[Len(scans)]

\* C14: in every run, a step that issues create_account issues it for the Name of
\* the spec entry being processed, that Name is absent from the run's snapshot of
\* the deployed accounts and from the creation requests as the last scan returned
\* them, and that scan is the call issued just before the create; the scan was
\* made for this entry, when the loop reached it, and it returned the requests
\* that had succeeded by then: each entry has its own scan, made after every
\* earlier creation of the run.
C14_NoDuplicateCreation ==
    /\ [][Len(CreateCalls') > Len(CreateCalls) =>
            LET c == CreateCalls'[Len(CreateCalls')]
            IN  /\ Len(CreateCalls') = Len(CreateCalls) + 1
                /\ pc = "create_account"
                /\ calls' = Append(calls, c)
                /\ calls[Len(calls)] = [op |-> "list_create_account_status"]
                /\ c["entry"] = idx
                /\ c["AccountName"] = account_spec["accounts"][idx]["Name"]
                /\ deployed_accounts' = deployed_accounts
                /\ \A k \in DOMAIN deployed_accounts :
                        deployed_accounts[k]["Name"] # c["AccountName"]
                /\ \A k \in DOMAIN created_accounts :
                        created_accounts[k]["AccountName"] # c["AccountName"]]_vars
    /\ [][(pc # "create_account" /\ pc' = "create_account") =>
            (/\ pc = "create_loop"
             /\ idx' = idx
             /\ calls' = Append(calls, [op |-> "list_create_account_status"])
             /\ scans' = Append(scans, SelectSeq(requests,
                                LAMBDA r : r["State"] = "SUCCEEDED")))]_vars
    /\ [][(pc = "create_account" /\ pc' = "create_account") =>
            (idx' = idx /\ calls' = calls /\ scans' = scans)]_vars

\* C14 witness: a later exec run has created the account of its first entry and
\* was then halted at its second entry, whose creation request had succeeded
C14_Witness ==
    /\ args["mode"] = "create"
    /\ run = 2
    /\ Len(CreateCalls) = 1
    /\ CreateCalls[1]["entry"] = 1
    /\ halted
    /\ idx = 2

\* the positions of the log that hold the warning about a pending creation
StillPending == {k \in DOMAIN log : log[k]["event"] = "still pending"}

\* C15: the step that ends the polling of a creation logs the warning 'still
\* pending' exactly when 5 polls were made and all returned IN_PROGRESS; it then
\* logs no error, does not halt the run and the loop stands at the next spec
\* entry; after a poll that returned SUCCEEDED or FAILED the step logs that
\* outcome and no warning; no other step logs the warning; every such warning in
\* the log is at warn level and follows the records of its creation ('Creating
\* account', the request Id, 5 polls that found the creation in progress).
C15_PendingIsWarnedNotFailed ==
    /\ [](\A k \in StillPending :
          /\ log[k]["level"] = "warn"
          /\ k > maxtries + 2
          /\ \A j \in 1..maxtries :
                log[k - j] = LogLine("info", "in progress", log[k]["subject"])
          /\ log[k - maxtries - 1]["event"] = "CreateAccountStatus Id"
          /\ log[k - maxtries - 2] =
                LogLine("info", "Creating account", log[k]["subject"]))
    /\ [][(pc \in Polling /\ pc' \notin Polling) =>
            LET name == account_spec["accounts"][idx]["Name"]
                written == {k \in DOMAIN log' : k > Len(log)}
                warned == \E k \in written : log'[k]["event"] = "still pending"
                last == log'[Len(log')]
            IN  /\ written # {}
                /\ warned <=> (/\ Len(polls') = maxtries
                               /\ \A k \in DOMAIN polls' : polls'[k] = "IN_PROGRESS")
                /\ warned => (/\ last = LogLine("warn", "still pending", name)
                              /\ \A k \in written : log'[k]["level"] # "error"
                              /\ pc' = "create_loop"
                              /\ idx' = idx + 1
                              /\ ~halted')
                /\ polls'[Len(polls')] = "SUCCEEDED" =>
                        last = LogLine("info", "succeeded", name)
                /\ polls'[Len(polls')] = "FAILED" =>
                        last = LogLine("error", "failed", name)]_vars
    /\ [][(\E k \in StillPending' : k > Len(log)) =>
            (pc \in Polling /\ pc' \notin Polling)]_vars

\* C15 witness: the creation of the first entry was still pending after 5 polls,
\* and the run has gone on to create the account of the second entry
C15_Witness ==
    /\ args["exec"]
    /\ Len(CreateCalls) = 2
    /\ \E k \in StillPending :
          /\ log[k]["subject"] = account_spec["accounts"][1]["Name"]
          /\ log[k + 1] = LogLine("info", "Creating account",
                                  account_spec["accounts"][2]["Name"])

\* invite_account has run for a valid account id that is not a member, and every
\* handshake the scan returned for the account is cancelled, declined or expired
NothingBlocks ==
    /\ invite["ran"]
    /\ GivenIdIsValid
    /\ ~GivenIdIsMember
    /\ \A i \in HandshakesFor(invite["invited_accounts"], args["invited_account_id"]) :
          invite["invited_accounts"][i]["State"] \in {"CANCELLED", "DECLINED", "EXPIRED"}

\* C16: when nothing blocks, invite_account with --exec issues exactly one
\* invite_account_to_organization call, with Target {Id: the account id, Type:
\* ACCOUNT}, and returns the handshake the service created for it; without --exec
\* it issues none, returns nothing and the organization's handshakes are as scanned.
C16_InvitesWhenNothingBlocks ==
    NothingBlocks =>
        /\ pc = "done"
        /\ invite["scanned"]
        /\ IF args["exec"]
           THEN /\ InviteCalls = <<[op |-> "invite_account_to_organization",
                                    Target |-> [Id |-> args["invited_account_id"],
                                                Type |-> "ACCOUNT"]]>>
                /\ invite["returned"] # None
                /\ invite["returned"] = handshakes[Len(handshakes)]
                /\ Len(handshakes) = Len(invite["invited_accounts"]) + 1
                /\ Len(handshakes) \in HandshakesFor(handshakes, args["invited_account_id"])
                /\ \A h \in Range(invite["invited_accounts"]) :
                        h["Id"] # invite["returned"]["Id"]
           ELSE /\ InviteCalls = <<>>
                /\ invite["returned"] = None
                /\ Len(handshakes) = Len(invite["invited_accounts"])

\* C16 witness: an exec run has invited an account whose earlier handshake was
\* cancelled, declined or expired
C16_Witness ==
    /\ NothingBlocks
    /\ args["exec"]
    /\ HandshakesFor(invite["invited_accounts"], args["invited_account_id"]) # {}
    /\ Len(InviteCalls) = 1

\* the set_account_alias call of account i runs with --exec for an ACTIVE account
\* and has found an alias that differs from the proposed one
Replacing(i) ==
    /\ args["exec"]
    /\ workers[i]["credentials"] = "ok"
    /\ workers[i]["calls"] # <<>>
    /\ workers[i]["aliases"] # <<>>
    /\ workers[i]["aliases"][1] # ExpectedAlias(deployed_accounts[i])

\* the create_account_alias call of account i failed
CreateFailed(i) ==
    /\ Len(AliasMutations(i)) = 2
    /\ iam_aliases[deployed_accounts[i]["Name"]] # <<ExpectedAlias(deployed_accounts[i])>>

\* C17: a replacement issues delete_account_alias(old alias) first and
\* create_account_alias(proposed alias) only when the delete has returned (never
\* after a delete that raised); when the create fails the call has logged it at
\* error level as its last record, has issued nothing after it, has returned
\* normally, and the account has no alias.
C17_NonAtomicReplacement ==
    \A i \in DOMAIN workers :
        Replacing(i) =>
            LET old == workers[i]["aliases"][1]
                proposed == ExpectedAlias(deployed_accounts[i])
                name == deployed_accounts[i]["Name"]
                full == << <<"delete_account_alias", old>>,
                           <<"create_account_alias", proposed>> >>
            IN  /\ AliasMutations(i) \in {<<>>, SubSeq(full, 1, 1), full}
                /\ workers[i]["pc"] = "delete" => AliasMutations(i) = <<>>
                /\ workers[i]["pc"] = "create" =>
                      AliasMutations(i) = SubSeq(full, 1, 1) /\ iam_aliases[name] = <<>>
                /\ workers[i]["pc"] = "raised" => AliasMutations(i) = SubSeq(full, 1, 1)
                /\ workers[i]["pc"] = "done" => AliasMutations(i) = full
                /\ CreateFailed(i) =>
                      /\ workers[i]["pc"] = "done"
                      /\ workers[i]["log"][Len(workers[i]["log"])] =
                            LogLine("error", "create_account_alias", name)
                      /\ Len(workers[i]["calls"]) = 3
                      /\ iam_aliases[name] = <<>>

\* C17 witness: a replacement whose delete succeeded and whose create failed has
\* returned, and the account has no alias
C17_Witness ==
    \E i \in DOMAIN workers :
        /\ Replacing(i)
        /\ CreateFailed(i)
        /\ workers[i]["pc"] = "done"
        /\ iam_aliases[deployed_accounts[i]["Name"]] = <<>>

\* the results set_account_alias can have for account i when it runs alone on
\* the aliases the account has at present
AloneResults(i, aliases) ==
    {set_account_alias(deployed_accounts[i], aliases, credentials, delete_ok, create_ok) :
        credentials \in {"ok", "RuntimeError"}, delete_ok \in BOOLEAN,
        create_ok \in BOOLEAN}

\* the result of the finished call of account i
ResultOf(i) ==
    [calls |-> workers[i]["calls"],
     aliases |-> iam_aliases[deployed_accounts[i]["Name"]],
     raised |-> workers[i]["pc"] = "raised"]

\* C18: under every interleaving of the workers, a step of the call for one
\* account changes the aliases of that account only and the progress of that call
\* only, a call that has not listed its aliases yet finds them as they were when
\* the run started, and the calls and final alias of a finished call are those of
\* a call that runs alone on the account.
C18_AliasWorkersDoNotInterfere ==
    /\ [][\A n \in Names :
            iam_aliases'[n] # iam_aliases[n] =>
                \E i \in DOMAIN workers :
                    /\ deployed_accounts[i]["Name"] = n
                    /\ workers'[i] # workers[i]
                    /\ workers[i]["pc"] \in {"delete", "create"}
                    /\ \A j \in DOMAIN workers \ {i} : workers'[j] = workers[j]]_vars
    /\ [](\A i \in DOMAIN workers :
            workers[i]["pc"] \in {"done", "raised"} =>
                ResultOf(i) \in AloneResults(i, AliasBefore(i)))

\* C18 witness: the calls for two accounts are both between their delete and
\* their create
C18_Witness ==
    /\ Len(workers) = 2
    /\ \A i \in DOMAIN workers :
          /\ workers[i]["pc"] = "create"
          /\ Len(workers[i]["calls"]) = 2

\* the entries of the spec whose Name is not in the snapshot of the run
Candidates ==
    {k \in DOMAIN account_spec["accounts"] :
        \A d \in DOMAIN deployed_accounts :
            deployed_accounts[d]["Name"] # account_spec["accounts"][k]["Name"]}

\* C19: the step in which a poll of a submitted creation returns FAILED logs the
\* failure at error level as its only record, issues no call, does not halt the
\* run and leaves the loop at the next spec entry; no poll follows it; an exec
\* run that was not halted by a collision has submitted a creation for every
\* candidate when create_accounts returns, whatever became of the creations
\* before it.
C19_FailedCreationDoesNotHalt ==
    /\ [][(polls' # polls /\ polls' # <<>> /\ polls'[Len(polls')] = "FAILED") =>
            (/\ log' = Append(log, LogLine("error", "failed",
                                        account_spec["accounts"][idx]["Name"]))
             /\ calls' = calls
             /\ ~halted'
             /\ pc' = "create_loop"
             /\ idx' = idx + 1)]_vars
    /\ [][(polls # <<>> /\ polls[Len(polls)] = "FAILED") =>
            (polls' = polls \/ polls' = <<>>)]_vars
    /\ []((/\ args["mode"] = "create"
           /\ args["exec"]
           /\ pc \in {"create_end", "done"}
           /\ ~halted)
          => \A k \in Candidates : \E c \in Range(CreateCalls) : c["entry"] = k)

\* C19 witness: the creation of the first entry failed and the creation of the
\* second entry was submitted in the same run
C19_Witness ==
    /\ args["exec"]
    /\ Len(CreateCalls) = 2
    /\ requests[CreateCalls[1]["Id"]]["State"] = "FAILED"
    /\ \E k \in DOMAIN log :
          /\ log[k] = LogLine("error", "failed", account_spec["accounts"][1]["Name"])
          /\ log[k + 1] = LogLine("info", "Creating account",
                                  account_spec["accounts"][2]["Name"])

\* the exec run that follows a dry run of the same spec has left create_accounts
ExecAfterPreview ==
    /\ args["mode"] = "create"
    /\ args["exec"]
    /\ history # <<>>
    /\ "previewed" \in DOMAIN Previous
    /\ pc \in {"create_end", "done"}

\* the ids of the creation requests a scan returned among those that existed
\* when the dry run ended (the dry run submits none)
Preexisting(scan) ==
    {scan[k]["Id"] : k \in DOMAIN scan} \cap 1..Previous["requests"]

\* the exec run took the snapshot of the deployed accounts the dry run took
SameSnapshot == deployed_accounts = Previous["deployed"]

\* the first scan of the exec run returned the pre-existing requests the first
\* scan of the dry run returned
SameRequestsAtFirst ==
    (scans # <<>> /\ Previous["scans"] # <<>>) =>
        Preexisting(scans[1]) = Preexisting(Previous["scans"][1])

\* every scan of the two runs returned the same pre-existing requests
SameRequestsThroughout ==
    \A s, t \in Range(scans) \cup Range(Previous["scans"]) :
        Preexisting(s) = Preexisting(t)

\* the accounts the exec run issues create_account for are, in order, the accounts
\* the dry run logged as 'Creating account', and both runs are halted at the same
\* entry or not at all
Previewed ==
    /\ [k \in DOMAIN CreateCalls |-> CreateCalls[k]["AccountName"]]
            = Previous["previewed"]
    /\ halted = Previous["halted"]

\* C20 as claimed: on the same spec, with the same snapshot of the deployed
\* accounts and the same pre-existing creation requests when the two runs first
\* scan them, the accounts an exec run issues create_account for are, in order,
\* the accounts the dry run logged as 'Creating account', whatever the polls of
\* the exec run returned; both runs are halted at the same entry or not at all.
C20_DryRunPreviewsExec ==
    (ExecAfterPreview /\ SameSnapshot /\ SameRequestsAtFirst) => Previewed

\* C20 amended: the same when no pre-existing request reaches SUCCEEDED between
\* the first scan of the dry run and the last scan of the exec run, that is, when
\* every scan of the two runs returns the same pre-existing requests.
C20_DryRunPreviewsExecOnStableRequests ==
    (ExecAfterPreview /\ SameSnapshot /\ SameRequestsThroughout) => Previewed

\* C20 witness: with a request in progress before the dry run, the dry run
\* announced two accounts, the exec run has created both while every scan
\* returned the same pre-existing requests, and the creation of the first had
\* succeeded when the second was scanned for
C20_Witness ==
    /\ ExecAfterPreview
    /\ SameSnapshot
    /\ SameRequestsThroughout
    /\ Previous["requests"] >= 1
    /\ Len(Previous["previewed"]) = 2
    /\ Len(CreateCalls) = 2
    /\ \E k \in DOMAIN log : log[k] = LogLine("info", "succeeded", CreateCalls[1]["AccountName"])

====
